---- MODULE Spec2Model ----
(***************************************************************************)
(* Model of analyticsclient.course.Course (src/analyticsclient/course.py). *)
(*                                                                         *)
(* A Course holds a client reference and a course_id; each method formats  *)
(* a path, optionally appends a query string, and returns whatever         *)
(* self.client.get(path, data_format=...) produces.                        *)
(*                                                                         *)
(* The module is Python 2 code (urllib.urlencode, unicode).  Python text   *)
(* is modelled as a sequence of one-character strings, so that formatting, *)
(* quoting and the iteration order of the params dict are computed the way *)
(* the interpreter (CPython 2.7, 64-bit) computes them rather than         *)
(* assumed; the order of a dict depends on the interpreter's hash seed,    *)
(* which is an input of the model, as is the action of the interpreter's   *)
(* warnings filter at each call; the warnings registry of the module,      *)
(* which warnings.warn reads and fills, is part of the state.  Arguments   *)
(* range over None, ASCII text and unicode text with a character outside   *)
(* ASCII.                                                                  *)
(***************************************************************************)
EXTENDS Integers, Sequences, FiniteSets, TLC

(***************************************************************************)
(* Python values and text helpers                                          *)
(***************************************************************************)

\* The printable ASCII characters, code points 32..126 in order (the grave
\* accent, code 96, is held by a placeholder).
ASCII ==
    <<" ", "!", "\"", "#", "$", "%", "&", "'", "(", ")", "*", "+", ",", "-",
      ".", "/", "0", "1", "2", "3", "4", "5", "6", "7", "8", "9", ":", ";",
      "<", "=", ">", "?", "@", "A", "B", "C", "D", "E", "F", "G", "H", "I",
      "J", "K", "L", "M", "N", "O", "P", "Q", "R", "S", "T", "U", "V", "W",
      "X", "Y", "Z", "[", "\\", "]", "^", "_", "<grave>", "a", "b", "c", "d", "e",
      "f", "g", "h", "i", "j", "k", "l", "m", "n", "o", "p", "q", "r", "s",
      "t", "u", "v", "w", "x", "y", "z", "{", "|", "}", "~">>

\* ord(c) of a printable ASCII character.
ord(c) == 31 + (CHOOSE i \in 1..Len(ASCII) : ASCII[i] = c)

\* A unicode character outside ASCII (LATIN SMALL LETTER E WITH ACUTE).
NON_ASCII == "<U+00E9>"

\* Python's None: a value that is no text.
None == <<"<None>">>

\* The set of characters of a text.
Chars(s) == {s[i] : i \in 1..Len(s)}

\* Truth value of an argument in "if x:" -- None and '' are falsy.
truthy(v) == v # None /\ v # <<>>

\* str(v) / "{0}".format(v) succeeds: unicode text with a character outside
\* ASCII cannot be encoded with the default codec.
encodes(v) == v = None \/ \A i \in 1..Len(v) : v[i] # NON_ASCII

\* What str(v) / "{0}".format(v) raises when v does not encode.
UnicodeEncodeError == <<"<UnicodeEncodeError>">>

\* str(v) / "{0}".format(v): None renders as the text None, text as itself.
str(v) == IF v = None THEN <<"N", "o", "n", "e">> ELSE v

\* sep.join(parts)
RECURSIVE join(_, _)
join(sep, parts) ==
    IF parts = <<>> THEN <<>>
    ELSE IF Len(parts) = 1 THEN parts[1]
    ELSE parts[1] \o sep \o join(sep, Tail(parts))

(***************************************************************************)
(* urllib.quote / quote_plus / urlencode (Python 2 standard library)       *)
(***************************************************************************)

HexDigits ==
    <<"0", "1", "2", "3", "4", "5", "6", "7", "8", "9", "A", "B", "C", "D", "E", "F">>

\* urllib.always_safe: letters, digits and "_.-".
always_safe ==
    { ASCII[i] : i \in 17..26 } \cup { ASCII[i] : i \in 34..59 }
      \cup { ASCII[i] : i \in 66..91 } \cup {"_", ".", "-"}

\* urllib.quote(s, safe): every character outside always_safe + safe
\* becomes %XX (upper-case hex of its code point).
RECURSIVE quote(_, _)
quote(s, safe) ==
    IF s = <<>> THEN <<>>
    ELSE (IF Head(s) \in always_safe \cup safe
          THEN <<Head(s)>>
          ELSE <<"%", HexDigits[(ord(Head(s)) \div 16) + 1],
                      HexDigits[(ord(Head(s)) % 16) + 1]>>)
         \o quote(Tail(s), safe)

\* s.replace(old, new) for single characters.
replace(s, old, new) == [i \in 1..Len(s) |-> IF s[i] = old THEN new ELSE s[i]]

\* urllib.quote_plus(s): like quote, but a space becomes "+".
quote_plus(s) ==
    IF " " \in Chars(s)
    THEN replace(quote(s, {" "}), " ", "+")
    ELSE quote(s, {})

(***************************************************************************)
(* Machine words.  A C unsigned integer is a little-endian sequence of     *)
(* 5-bit limbs (13 limbs for a 64-bit long, 7 for a 32-bit int), so that    *)
(* the products of the hash functions stay exact.                          *)
(***************************************************************************)

\* Bitwise exclusive or of two naturals.
RECURSIVE bitxor(_, _)
bitxor(a, b) ==
    IF a = 0 THEN b
    ELSE IF b = 0 THEN a
    ELSE ((a + b) % 2) + 2 * bitxor(a \div 2, b \div 2)

\* 2^n for small n.
RECURSIVE pow2(_)
pow2(n) == IF n = 0 THEN 1 ELSE 2 * pow2(n - 1)

\* Number of limbs of a word of the given width in bits.
limb_count(width) == (width + 4) \div 5

\* Truncation of a limb sequence to a word of the given width.
truncate(a, width) ==
    LET k == limb_count(width)
        top == width - 5 * (k - 1)
    IN  [i \in 1..k |-> IF i = k THEN a[i] % pow2(top) ELSE a[i]]

\* The k low limbs of a natural n.
RECURSIVE limbs_of(_, _)
limbs_of(n, k) == IF k = 0 THEN <<>> ELSE <<n % 32>> \o limbs_of(n \div 32, k - 1)

\* a * m + carry, limb by limb, as many limbs as a has (the rest overflows).
RECURSIVE times_plus(_, _, _)
times_plus(a, m, carry) ==
    IF a = <<>> THEN <<>>
    ELSE LET t == a[1] * m + carry
         IN  <<t % 32>> \o times_plus(Tail(a), m, t \div 32)

\* a ^ b on words of the same width.
xor_words(a, b) == [i \in 1..Len(a) |-> bitxor(a[i], b[i])]

\* The bits of a limb sequence, least significant first.
RECURSIVE bits_of(_)
bits_of(a) ==
    IF a = <<>> THEN <<>>
    ELSE [j \in 1..5 |-> (a[1] \div pow2(j - 1)) % 2] \o bits_of(Tail(a))

\* The word of the given number of limbs whose bits are given (missing bits
\* are zero).
word_of_bits(bits, k) ==
    [i \in 1..k |->
        LET bit(j) == IF 5 * (i - 1) + j <= Len(bits) THEN bits[5 * (i - 1) + j] ELSE 0
        IN  bit(1) + 2 * bit(2) + 4 * bit(3) + 8 * bit(4) + 16 * bit(5)]

(***************************************************************************)
(* The interpreter's hash secret.  CPython 2.7 fills _Py_HashSecret        *)
(* (prefix, suffix) at start-up: with zeros when hash randomization is off *)
(* (the default, or PYTHONHASHSEED=0), from lcg_urandom(seed) when         *)
(* PYTHONHASHSEED is an integer, from the OS random source under -R.  The  *)
(* iteration order of every dict keyed by str depends on it.               *)
(***************************************************************************)

VARIABLE hash_secret   \* _Py_HashSecret: [prefix, suffix], two 64-bit words

\* lcg_urandom: the sequence of the size bytes (as 8 bits each, low bit
\* first) drawn from x = x * 214013 + 2531011 (mod 2^32), byte = (x >> 16) & 0xff.
RECURSIVE lcg_urandom(_, _)
lcg_urandom(x, size) ==
    IF size = 0 THEN <<>>
    ELSE LET x1 == truncate(times_plus(x, 214013, 2531011), 32)
         IN  SubSeq(bits_of(x1), 17, 24) \o lcg_urandom(x1, size - 1)

\* _PyRandom_Init with PYTHONHASHSEED=seed (0: randomization off).
PyRandom_Init(seed) ==
    hash_secret =
        IF seed = 0
        THEN [prefix |-> limbs_of(0, 13), suffix |-> limbs_of(0, 13)]
        ELSE LET buffer == lcg_urandom(limbs_of(seed, 7), 16)
             IN  [prefix |-> word_of_bits(SubSeq(buffer, 1, 64), 13),
                  suffix |-> word_of_bits(SubSeq(buffer, 65, 128), 13)]

(***************************************************************************)
(* The params dict.  CPython 2 keeps a dict of up to five entries in an    *)
(* open-addressed table of 8 slots; a key goes to slot hash(key) & 7, or   *)
(* down its probe sequence when that slot is taken, and iteration          *)
(* (items(), hence urlencode) walks the slots in index order.              *)
(***************************************************************************)

\* The loop of string_hash: x = (1000003*x) ^ ord(c) on a 64-bit long.
RECURSIVE hash_loop(_, _)
hash_loop(x, s) ==
    IF s = <<>> THEN x
    ELSE hash_loop(xor_words(truncate(times_plus(x, 1000003, 0), 64),
                             limbs_of(ord(Head(s)), 13)),
                   Tail(s))

\* hash(s) of a str as a 64-bit word: 0 for the empty string, else
\* x = prefix ^ (ord(s[0]) << 7), the loop, x ^= len(s), x ^= suffix, and
\* -2 in place of -1.
string_hash(s) ==
    IF s = <<>> THEN limbs_of(0, 13)
    ELSE LET x0 == xor_words(hash_secret.prefix, limbs_of(ord(s[1]) * 128, 13))
             x1 == xor_words(hash_loop(x0, s), limbs_of(Len(s), 13))
             x2 == xor_words(x1, hash_secret.suffix)
         IN  IF x2 = [i \in 1..13 |-> IF i = 13 THEN 15 ELSE 31]
             THEN [x2 EXCEPT ![1] = 30]
             ELSE x2

\* Number of slots of a small dict.
PyDict_MINSIZE == 8

\* A free slot of the table.
FreeSlot == <<>>

\* params = {}
new_dict == [i \in 0..(PyDict_MINSIZE - 1) |-> FreeSlot]

\* lookdict_string: the slot where key lives or goes.  Start at hash & mask;
\* while the slot holds another key: i = (i << 2) + i + perturb + 1, with
\* perturb starting as the whole hash and shifted right by 5 after each probe.
RECURSIVE lookdict(_, _, _, _)
lookdict(d, key, i, perturb) ==
    LET slot == i % PyDict_MINSIZE IN
    IF d[slot] = FreeSlot \/ d[slot][1] = key
    THEN slot
    ELSE lookdict(d, key, (5 * slot + perturb[1] + 1) % PyDict_MINSIZE,
                  Tail(perturb) \o <<0>>)

\* params[key] = value
setitem(d, key, value) ==
    LET hash == string_hash(key)
        slot == lookdict(d, key, hash[1], hash)
    IN  [d EXCEPT ![slot] = <<key, value>>]

\* params.items(): the entries in slot order.
RECURSIVE items_from(_, _)
items_from(d, i) ==
    IF i >= PyDict_MINSIZE THEN <<>>
    ELSE (IF d[i] = FreeSlot THEN <<>> ELSE <<d[i]>>) \o items_from(d, i + 1)

items(d) == items_from(d, 0)

\* urllib.urlencode(params): "k=v" per item, quoted, joined with "&"; str(v)
\* of a value that does not encode raises.
urlencode(d) ==
    LET its == items(d) IN
    IF \E i \in 1..Len(its) : ~encodes(its[i][2])
    THEN UnicodeEncodeError
    ELSE join(<<"&">>,
              [i \in 1..Len(its) |->
                  quote_plus(str(its[i][1])) \o <<"=">> \o quote_plus(str(its[i][2]))])

(***************************************************************************)
(* Constants of analyticsclient.constants and analyticsclient.exceptions   *)
(***************************************************************************)

\* analyticsclient.constants.data_format
DF_JSON == <<"j", "s", "o", "n">>
DF_CSV == <<"c", "s", "v">>

\* analyticsclient.constants.activity_type.ANY
AT_ANY == <<"a", "n", "y">>

\* The caller left a defaulted argument out of the call.
OMITTED_ARG == <<"<omitted>">>

\* The argument is not in the method's signature.
NoArg == <<"<no such argument>">>

\* Binding of a defaulted parameter: the caller's value, or the default.
bind(arg, default) == IF arg = OMITTED_ARG THEN default ELSE arg

(***************************************************************************)
(* The paths the methods of Course build                                   *)
(***************************************************************************)

\* The shared tail of the parameterised methods:
\*   if start_date: params['start_date'] = start_date
\*   if end_date:   params['end_date'] = end_date
date_params(params, start_date, end_date) ==
    LET p1 == IF truthy(start_date)
              THEN setitem(params, <<"s", "t", "a", "r", "t", "_", "d", "a", "t", "e">>, start_date)
              ELSE params
    IN  IF truthy(end_date)
        THEN setitem(p1, <<"e", "n", "d", "_", "d", "a", "t", "e">>, end_date)
        ELSE p1

\* 'courses/{0}/...'.format(...): the text, unless an argument does not encode.
format(arguments, text) ==
    IF \E i \in 1..Len(arguments) : ~encodes(arguments[i])
    THEN UnicodeEncodeError
    ELSE text

\*   querystring = urllib.urlencode(params)
\*   if querystring: path += '?{0}'.format(querystring)
append_querystring(path, params) ==
    IF path = UnicodeEncodeError THEN UnicodeEncodeError
    ELSE LET querystring == urlencode(params) IN
         IF querystring = UnicodeEncodeError THEN UnicodeEncodeError
         ELSE IF querystring # <<>> THEN path \o <<"?">> \o querystring ELSE path

\* enrollment_path with the course id percent-encoded on its way into the path.
enrollment_path_quoted(self_course_id, demographic, start_date, end_date) ==
    LET path0 == format(<<self_course_id>>,
                   <<"c", "o", "u", "r", "s", "e", "s", "/">> \o quote(str(self_course_id), {"/"})
                     \o <<"/", "e", "n", "r", "o", "l", "l", "m", "e", "n", "t", "/">>)
        path1 == IF truthy(demographic) /\ path0 # UnicodeEncodeError
                 THEN format(<<demographic>>, path0 \o str(demographic) \o <<"/">>)
                 ELSE path0
        params == date_params(new_dict, start_date, end_date)
    IN  append_querystring(path1, params)

\* Course.enrollment, the path handed to client.get
enrollment_path(self_course_id, demographic, start_date, end_date) ==
    LET path0 == format(<<self_course_id>>,
                   <<"c", "o", "u", "r", "s", "e", "s", "/">> \o str(self_course_id)
                     \o <<"/", "e", "n", "r", "o", "l", "l", "m", "e", "n", "t", "/">>)
        path1 == IF truthy(demographic) /\ path0 # UnicodeEncodeError
                 THEN format(<<demographic>>, path0 \o str(demographic) \o <<"/">>)
                 ELSE path0
        params == date_params(new_dict, start_date, end_date)
    IN  append_querystring(path1, params)

\* Course.activity, the path handed to client.get (activity_type is truthy)
activity_path(self_course_id, activity_type, start_date, end_date) ==
    LET params0 == setitem(new_dict,
                     <<"a", "c", "t", "i", "v", "i", "t", "y", "_", "t", "y", "p", "e">>,
                     activity_type)
        params == date_params(params0, start_date, end_date)
        path == format(<<self_course_id>>,
                  <<"c", "o", "u", "r", "s", "e", "s", "/">> \o str(self_course_id)
                    \o <<"/", "a", "c", "t", "i", "v", "i", "t", "y", "/">>)
    IN  IF path = UnicodeEncodeError \/ urlencode(params) = UnicodeEncodeError
        THEN UnicodeEncodeError
        ELSE path \o <<"?">> \o urlencode(params)

\* Course.recent_activity, the path handed to client.get
recent_activity_path(self_course_id, activity_type) ==
    format(<<self_course_id, activity_type>>,
        <<"c", "o", "u", "r", "s", "e", "s", "/">> \o str(self_course_id)
          \o <<"/", "r", "e", "c", "e", "n", "t", "_", "a", "c", "t", "i", "v", "i", "t", "y", "/",
               "?", "a", "c", "t", "i", "v", "i", "t", "y", "_", "t", "y", "p", "e", "=">>
          \o str(activity_type))

\* Course.problems, the path handed to client.get
problems_path(self_course_id) ==
    format(<<self_course_id>>,
        <<"c", "o", "u", "r", "s", "e", "s", "/">> \o str(self_course_id)
          \o <<"/", "p", "r", "o", "b", "l", "e", "m", "s", "/">>)

\* Course.video_settings, the path handed to client.get
video_settings_path(self_course_id) ==
    format(<<self_course_id>>,
        <<"c", "o", "u", "r", "s", "e", "s", "/">> \o str(self_course_id)
          \o <<"/", "v", "i", "d", "e", "o", "s", "/", "s", "e", "t", "t", "i", "n", "g", "s", "/">>)

\* Course.video_summary, the path handed to client.get
video_summary_path(self_course_id, video_id, start_date, end_date) ==
    LET path == format(<<self_course_id, video_id>>,
                  <<"c", "o", "u", "r", "s", "e", "s", "/">> \o str(self_course_id)
                    \o <<"/", "v", "i", "d", "e", "o", "s", "/">> \o str(video_id)
                    \o <<"/", "s", "u", "m", "m", "a", "r", "y", "/">>)
        params == date_params(new_dict, start_date, end_date)
    IN  append_querystring(path, params)

\* Course.videos, the path handed to client.get
videos_path(self_course_id, start_date, end_date) ==
    LET path == format(<<self_course_id>>,
                  <<"c", "o", "u", "r", "s", "e", "s", "/">> \o str(self_course_id)
                    \o <<"/", "v", "i", "d", "e", "o", "s", "/">>)
        params == date_params(new_dict, start_date, end_date)
    IN  append_querystring(path, params)

\* Course.video_seek_times, the path handed to client.get
video_seek_times_path(self_course_id, video_id, start_date, end_date) ==
    LET path == format(<<self_course_id, video_id>>,
                  <<"c", "o", "u", "r", "s", "e", "s", "/">> \o str(self_course_id)
                    \o <<"/", "v", "i", "d", "e", "o", "s", "/">> \o str(video_id)
                    \o <<"/", "s", "e", "e", "k", "_", "t", "i", "m", "e", "s", "/">>)
        params == date_params(new_dict, start_date, end_date)
    IN  append_querystring(path, params)

\* Course.on_campus_data, the path handed to client.get
on_campus_data_path(self_course_id, start_date, end_date) ==
    LET path == format(<<self_course_id>>,
                  <<"c", "o", "u", "r", "s", "e", "s", "/">> \o str(self_course_id)
                    \o <<"/", "o", "n", "_", "c", "a", "m", "p", "u", "s", "_",
                         "s", "t", "u", "d", "e", "n", "t", "_", "d", "a", "t", "a", "/">>)
        params == date_params(new_dict, start_date, end_date)
    IN  append_querystring(path, params)

(***************************************************************************)
(* State                                                                   *)
(***************************************************************************)

\* Number of callers that may be inside a method of the instance at once.
MaxThreads == 2

Threads == 1..MaxThreads

VARIABLES
    warningregistry, \* __warningregistry__ of module analyticsclient.course:
                 \*   the keys of the warnings warn need not look at again
    course_id,   \* self.course_id
    client,      \* self.client
    pc,          \* per caller: "idle", "warned" (in recent_activity, past
                 \*   warnings.warn), "in_get" (blocked in client.get),
                 \*   "returned" or "raised" (the call is over)
    call,        \* per caller: the method called and the arguments given
    request,     \* per caller: what client.get received in this call
    gets,        \* per caller: number of client.get calls made by this call
    status,      \* per caller: the HTTP status the server answered with (0: none yet)
    produced,    \* per caller: what client.get produced for this call
    outcome,     \* per caller: what the caller of the method received
    warnings     \* per caller: the warnings.warn calls made by this call

vars == <<hash_secret, warningregistry, course_id, client, pc, call, request, gets, status, produced, outcome, warnings>>

NoCall ==
    [op |-> "none", demographic |-> NoArg, activity_type |-> NoArg, video_id |-> NoArg,
     start_date |-> NoArg, end_date |-> NoArg, data_format |-> NoArg,
     unexpected |-> "none"]

NoRequest == [path |-> None, data_format |-> NoArg]

NoResult == [kind |-> "none", value |-> "none"]

\* The methods class Course defines.
CourseMethods ==
    {"enrollment", "activity", "recent_activity", "problems", "video_settings",
     "video_summary", "videos", "video_seek_times", "on_campus_data"}

\* The parameters of each method, after self.
Signature(name) ==
    CASE name = "enrollment" -> {"demographic", "start_date", "end_date", "data_format"}
      [] name = "activity" -> {"activity_type", "start_date", "end_date", "data_format"}
      [] name = "recent_activity" -> {"activity_type", "data_format"}
      [] name = "problems" -> {"data_format"}
      [] name = "video_settings" -> {"data_format"}
      [] name = "video_summary" -> {"video_id", "start_date", "end_date", "data_format"}
      [] name = "videos" -> {"start_date", "end_date", "data_format"}
      [] name = "video_seek_times" -> {"video_id", "start_date", "end_date", "data_format"}
      [] name = "on_campus_data" -> {"start_date", "end_date", "data_format"}

(***************************************************************************)
(* The collaborator: analyticsclient.client.Client.get                     *)
(***************************************************************************)

\* What get(path, data_format) produces for the status the server answers
\* with: the decoded body for a 2xx, an error otherwise.
Client_get(http_status, data_format) ==
    IF http_status = 200
    THEN [kind |-> "return",
          value |-> IF data_format = DF_JSON THEN "parsed JSON body" ELSE "raw text body"]
    ELSE IF http_status = 404 THEN [kind |-> "raise", value |-> "NotFoundError"]
    ELSE IF http_status = 400 THEN [kind |-> "raise", value |-> "InvalidRequestError"]
    ELSE [kind |-> "raise", value |-> "ClientError"]

(***************************************************************************)
(* Course.__init__                                                         *)
(***************************************************************************)

\* "import warnings" in a fresh interpreter: the module has no
\* __warningregistry__ yet.
import_warnings == warningregistry = {}

\* self.client = client; self.course_id = unicode(course_id)
Course_init(a_client, a_course_id) ==
    /\ client = a_client
    /\ course_id = str(a_course_id)
    /\ pc = [t \in Threads |-> "idle"]
    /\ call = [t \in Threads |-> NoCall]
    /\ request = [t \in Threads |-> NoRequest]
    /\ gets = [t \in Threads |-> 0]
    /\ status = [t \in Threads |-> 0]
    /\ produced = [t \in Threads |-> NoResult]
    /\ outcome = [t \in Threads |-> NoResult]
    /\ warnings = [t \in Threads |-> <<>>]

(***************************************************************************)
(* The steps every method is made of                                       *)
(***************************************************************************)

\* A method reaches "return self.client.get(path, data_format=data_format)"
\* from position at: the request goes out and the caller blocks in get.
client_get_call(t, at, c, path, data_format, warned) ==
    /\ pc[t] = at
    /\ pc' = [pc EXCEPT ![t] = "in_get"]
    /\ call' = [call EXCEPT ![t] = c]
    /\ request' = [request EXCEPT ![t] = [path |-> path, data_format |-> data_format]]
    /\ gets' = [gets EXCEPT ![t] = 1]
    /\ status' = [status EXCEPT ![t] = 0]
    /\ produced' = [produced EXCEPT ![t] = NoResult]
    /\ outcome' = [outcome EXCEPT ![t] = NoResult]
    /\ warnings' = [warnings EXCEPT ![t] = warned]
    /\ UNCHANGED <<hash_secret, course_id, client>>

\* A method raises, from position at, before it reaches client.get.
raise_before_get(t, at, c, error, warned) ==
    /\ pc[t] = at
    /\ pc' = [pc EXCEPT ![t] = "raised"]
    /\ call' = [call EXCEPT ![t] = c]
    /\ request' = [request EXCEPT ![t] = NoRequest]
    /\ gets' = [gets EXCEPT ![t] = 0]
    /\ status' = [status EXCEPT ![t] = 0]
    /\ produced' = [produced EXCEPT ![t] = NoResult]
    /\ outcome' = [outcome EXCEPT ![t] = [kind |-> "raise", value |-> error]]
    /\ warnings' = [warnings EXCEPT ![t] = warned]
    /\ UNCHANGED <<hash_secret, course_id, client>>

\* method_result that swallows an error and returns None.
method_result_swallowing(result) ==
    IF result.kind = "raise" THEN [kind |-> "return", value |-> "None"] ELSE result

\* What a method hands to its caller once client.get has produced result:
\* "return self.client.get(...)" returns the value, and lets an error pass.
method_result(result) == result

\* client.get answers (the server replied with status): the method returns
\* the value, or the error propagates to the caller.
client_get_return(t, http_status) ==
    /\ pc[t] = "in_get"
    /\ status' = [status EXCEPT ![t] = http_status]
    /\ LET result == Client_get(http_status, request[t].data_format) IN
       /\ produced' = [produced EXCEPT ![t] = result]
       /\ outcome' = [outcome EXCEPT ![t] = method_result(result)]
       /\ pc' = [pc EXCEPT ![t] =
                   IF method_result(result).kind = "return" THEN "returned" ELSE "raised"]
    /\ UNCHANGED <<hash_secret, warningregistry, course_id, client, call, request, gets, warnings>>

\* The caller is done with the outcome of its call (the frame of the call is
\* gone) and is free to make its next call on the same instance.
caller_resumes(t) ==
    /\ pc[t] \in {"returned", "raised"}
    /\ pc' = [pc EXCEPT ![t] = "idle"]
    /\ call' = [call EXCEPT ![t] = NoCall]
    /\ request' = [request EXCEPT ![t] = NoRequest]
    /\ gets' = [gets EXCEPT ![t] = 0]
    /\ status' = [status EXCEPT ![t] = 0]
    /\ produced' = [produced EXCEPT ![t] = NoResult]
    /\ outcome' = [outcome EXCEPT ![t] = NoResult]
    /\ warnings' = [warnings EXCEPT ![t] = <<>>]
    /\ UNCHANGED <<hash_secret, warningregistry, course_id, client>>

(***************************************************************************)
(* The methods of Course, up to the call of client.get                     *)
(***************************************************************************)

\* The end of every method: the path was built, or building it raised.
get_or_raise(t, at, c, path, data_format, warned) ==
    /\ pc[t] = at
    /\ IF path = UnicodeEncodeError
       THEN raise_before_get(t, at, c, "UnicodeEncodeError", warned)
       ELSE client_get_call(t, at, c, path, data_format, warned)

enrollment(t, demographic, start_date, end_date, data_format) ==
    /\ get_or_raise(t, "idle",
         [NoCall EXCEPT !.op = "enrollment", !.demographic = demographic,
                        !.start_date = start_date, !.end_date = end_date,
                        !.data_format = data_format],
         enrollment_path(course_id, demographic, start_date, end_date),
         bind(data_format, DF_JSON), <<>>)
    /\ UNCHANGED warningregistry

\* The test "if activity_type is None".
activity_type_is_none(activity_type) == activity_type = None

\* "if not activity_type"
activity_type_missing(activity_type) == ~truthy(activity_type)

activity(t, activity_type, start_date, end_date, data_format) ==
    LET c == [NoCall EXCEPT !.op = "activity", !.activity_type = activity_type,
                            !.start_date = start_date, !.end_date = end_date,
                            !.data_format = data_format]
    IN  /\ IF activity_type_missing(bind(activity_type, AT_ANY))
           THEN raise_before_get(t, "idle", c, "InvalidRequestError", <<>>)
           ELSE get_or_raise(t, "idle", c,
                    activity_path(course_id, bind(activity_type, AT_ANY), start_date, end_date),
                    bind(data_format, DF_JSON), <<>>)
        /\ UNCHANGED warningregistry

\* warnings.warn('recent_activity has been deprecated! Use activity instead.',
\*               DeprecationWarning), with the action the interpreter's warnings
\* filter has for it when the call is made.
recent_activity_warning(filter_action) ==
    <<[category |-> "DeprecationWarning",
       message |-> "recent_activity has been deprecated! Use activity instead.",
       action |-> filter_action]>>

\* The key of that warning in the registry: (text, category, lineno).
registry_key ==
    [text |-> "recent_activity has been deprecated! Use activity instead.",
     category |-> "DeprecationWarning", lineno |-> 93]

\* warnings.warn raises the warning when its key is not in the registry and
\* the filter's action for it is "error"; with the key in the registry warn
\* returns before it looks at the filter.
warn_raises(registry, filter_action) ==
    registry_key \notin registry /\ filter_action = "error"

\* The registry after warnings.warn: "ignore", "default", "module" and "once"
\* enter the key, "always" and "error" do not.
warn_registry(registry, filter_action) ==
    IF filter_action \in {"ignore", "default", "module", "once"}
    THEN registry \cup {registry_key}
    ELSE registry

\* Line 93: warnings.warn returns (the caller goes on to build the path) or
\* raises.  Other callers may run before this one reaches line 95.
recent_activity(t, activity_type, data_format, filter_action) ==
    LET c == [NoCall EXCEPT !.op = "recent_activity", !.activity_type = activity_type,
                            !.data_format = data_format]
    IN  /\ pc[t] = "idle"
        /\ warningregistry' = warn_registry(warningregistry, filter_action)
        /\ IF warn_raises(warningregistry, filter_action)
           THEN raise_before_get(t, "idle", c, "DeprecationWarning",
                                 recent_activity_warning(filter_action))
           ELSE /\ pc' = [pc EXCEPT ![t] = "warned"]
                /\ call' = [call EXCEPT ![t] = c]
                /\ request' = [request EXCEPT ![t] = NoRequest]
                /\ gets' = [gets EXCEPT ![t] = 0]
                /\ status' = [status EXCEPT ![t] = 0]
                /\ produced' = [produced EXCEPT ![t] = NoResult]
                /\ outcome' = [outcome EXCEPT ![t] = NoResult]
                /\ warnings' = [warnings EXCEPT ![t] = recent_activity_warning(filter_action)]
                /\ UNCHANGED <<hash_secret, course_id, client>>

\* Lines 95-96 of recent_activity: the path is built and handed to client.get.
recent_activity_get(t) ==
    /\ get_or_raise(t, "warned", call[t],
         recent_activity_path(course_id, bind(call[t].activity_type, AT_ANY)),
         bind(call[t].data_format, DF_JSON), warnings[t])
    /\ UNCHANGED warningregistry

problems(t, data_format) ==
    /\ get_or_raise(t, "idle",
         [NoCall EXCEPT !.op = "problems", !.data_format = data_format],
         problems_path(course_id), bind(data_format, DF_JSON), <<>>)
    /\ UNCHANGED warningregistry

video_settings(t, data_format) ==
    /\ get_or_raise(t, "idle",
         [NoCall EXCEPT !.op = "video_settings", !.data_format = data_format],
         video_settings_path(course_id), bind(data_format, DF_JSON), <<>>)
    /\ UNCHANGED warningregistry

\* video_id has no default: a call without it does not bind (TypeError).
video_summary(t, video_id, start_date, end_date, data_format) ==
    LET c == [NoCall EXCEPT !.op = "video_summary", !.video_id = video_id,
                            !.start_date = start_date, !.end_date = end_date,
                            !.data_format = data_format]
    IN  /\ IF video_id = OMITTED_ARG
           THEN raise_before_get(t, "idle", c, "TypeError", <<>>)
           ELSE get_or_raise(t, "idle", c,
                    video_summary_path(course_id, video_id, start_date, end_date),
                    bind(data_format, DF_JSON), <<>>)
        /\ UNCHANGED warningregistry

videos(t, start_date, end_date, data_format) ==
    /\ get_or_raise(t, "idle",
         [NoCall EXCEPT !.op = "videos", !.start_date = start_date, !.end_date = end_date,
                        !.data_format = data_format],
         videos_path(course_id, start_date, end_date),
         bind(data_format, DF_JSON), <<>>)
    /\ UNCHANGED warningregistry

video_seek_times(t, video_id, start_date, end_date, data_format) ==
    LET c == [NoCall EXCEPT !.op = "video_seek_times", !.video_id = video_id,
                            !.start_date = start_date, !.end_date = end_date,
                            !.data_format = data_format]
    IN  /\ IF video_id = OMITTED_ARG
           THEN raise_before_get(t, "idle", c, "TypeError", <<>>)
           ELSE get_or_raise(t, "idle", c,
                    video_seek_times_path(course_id, video_id, start_date, end_date),
                    bind(data_format, DF_JSON), <<>>)
        /\ UNCHANGED warningregistry

on_campus_data(t, start_date, end_date, data_format) ==
    /\ get_or_raise(t, "idle",
         [NoCall EXCEPT !.op = "on_campus_data", !.start_date = start_date,
                        !.end_date = end_date, !.data_format = data_format],
         on_campus_data_path(course_id, start_date, end_date),
         bind(data_format, DF_JSON), <<>>)
    /\ UNCHANGED warningregistry

\* A call of a method with a keyword argument its signature does not have:
\* binding the arguments raises TypeError and the body never runs.
unexpected_keyword(t, name, keyword) ==
    /\ name \in CourseMethods
    /\ keyword \notin Signature(name)
    /\ raise_before_get(t, "idle", [NoCall EXCEPT !.op = name, !.unexpected = keyword],
                        "TypeError", <<>>)
    /\ UNCHANGED warningregistry

\* A call of a name class Course does not define: the attribute lookup
\* raises AttributeError and nothing else happens.
undefined_method(t, name) ==
    /\ name \notin CourseMethods
    /\ raise_before_get(t, "idle", [NoCall EXCEPT !.op = name], "AttributeError", <<>>)
    /\ UNCHANGED warningregistry

(***************************************************************************)
(* Inputs                                                                  *)
(***************************************************************************)

TestCourseId == <<"e", "d", "X", "/", "D", "e", "m", "o", "X", "/", "D", "e", "m", "o", "_", "C", "o", "u", "r", "s", "e">>
SpacedCourseId == <<"a", " ", "b">>

Date == <<"2", "0", "1", "4", "-", "0", "1", "-", "0", "1">>
DateTime == <<"2", "0", "1", "4", "-", "0", "1", "-", "0", "1", " ", "0", "0", ":", "0", "0">>

\* u'\xe9': unicode text that the default codec cannot encode.
Accented == <<NON_ASCII>>

CourseIds == {TestCourseId, <<>>, SpacedCourseId, Accented}
Demographics == {None, <<>>, <<"g", "e", "n", "d", "e", "r">>, Accented}
ActivityTypes == {OMITTED_ARG, None, <<>>, AT_ANY, <<"p", "l", "a", "y", "e", "d", "_", "v", "i", "d", "e", "o">>, Accented}
VideoIds == {OMITTED_ARG, <<>>, <<"0", "f", "a", "c", "4", "9", "b", "a">>, Accented}
Dates == {None, <<>>, Date, DateTime, Accented}
DataFormats == {OMITTED_ARG, DF_JSON, DF_CSV}
Statuses == {200, 400, 404, 500}
UndefinedNames == {"problems_and_tags", "reports"}
UnexpectedKeywords == {"start_date", "video_id"}

\* What the interpreter's warnings filter does with a DeprecationWarning when
\* a call is made ("ignore" is the interpreter's start-up filter).
FilterActions == {"ignore", "default", "always", "module", "once", "error"}

\* PYTHONHASHSEED of the interpreter the program runs in (0: randomization off).
HashSeeds == {0, 1, 4}

(***************************************************************************)
(* One caller at a time                                                    *)
(***************************************************************************)

Sequential == {1}

Init ==
    \E seed \in HashSeeds, c \in CourseIds :
        PyRandom_Init(seed) /\ import_warnings /\ Course_init("client", c)

Next ==
    \E t \in Sequential :
        \/ \E demographic \in Demographics, start_date \in Dates, end_date \in Dates,
              data_format \in DataFormats :
                enrollment(t, demographic, start_date, end_date, data_format)
        \/ \E activity_type \in ActivityTypes, start_date \in Dates, end_date \in Dates,
              data_format \in DataFormats :
                activity(t, activity_type, start_date, end_date, data_format)
        \/ \E activity_type \in ActivityTypes, data_format \in DataFormats,
              filter_action \in FilterActions :
                recent_activity(t, activity_type, data_format, filter_action)
        \/ recent_activity_get(t)
        \/ \E data_format \in DataFormats : problems(t, data_format)
        \/ \E data_format \in DataFormats : video_settings(t, data_format)
        \/ \E video_id \in VideoIds, start_date \in Dates, end_date \in Dates,
              data_format \in DataFormats :
                video_summary(t, video_id, start_date, end_date, data_format)
        \/ \E start_date \in Dates, end_date \in Dates, data_format \in DataFormats :
                videos(t, start_date, end_date, data_format)
        \/ \E video_id \in VideoIds, start_date \in Dates, end_date \in Dates,
              data_format \in DataFormats :
                video_seek_times(t, video_id, start_date, end_date, data_format)
        \/ \E start_date \in Dates, end_date \in Dates, data_format \in DataFormats :
                on_campus_data(t, start_date, end_date, data_format)
        \/ \E name \in CourseMethods, keyword \in UnexpectedKeywords :
                unexpected_keyword(t, name, keyword)
        \/ \E name \in UndefinedNames : undefined_method(t, name)
        \/ \E http_status \in Statuses : client_get_return(t, http_status)
        \/ caller_resumes(t)

Spec == Init /\ [][Next]_vars

(***************************************************************************)
(* Several callers inside the methods of one instance at once              *)
(***************************************************************************)

ConcDates == {Date}
ConcStatuses == {200, 404}
ConcVideoIds == {<<"0", "f", "a", "c", "4", "9", "b", "a">>}
ConcHashSeeds == {1}
ConcFilterActions == {"default", "error"}

InitConc ==
    \E seed \in ConcHashSeeds :
        PyRandom_Init(seed) /\ import_warnings /\ Course_init("client", TestCourseId)

NextConc ==
    \E t \in Threads :
        \/ \E start_date \in ConcDates :
                enrollment(t, None, start_date, Date, OMITTED_ARG)
        \/ \E activity_type \in {OMITTED_ARG, None} :
                activity(t, activity_type, Date, None, OMITTED_ARG)
        \/ \E filter_action \in ConcFilterActions :
                recent_activity(t, OMITTED_ARG, OMITTED_ARG, filter_action)
        \/ recent_activity_get(t)
        \/ problems(t, DF_CSV)
        \/ video_settings(t, OMITTED_ARG)
        \/ \E video_id \in ConcVideoIds : video_summary(t, video_id, None, Date, OMITTED_ARG)
        \/ \E start_date \in ConcDates : videos(t, start_date, Date, OMITTED_ARG)
        \/ \E video_id \in ConcVideoIds : video_seek_times(t, video_id, Date, Date, DF_JSON)
        \/ \E end_date \in {Date} : on_campus_data(t, None, end_date, OMITTED_ARG)
        \/ unexpected_keyword(t, "problems", "start_date")
        \/ undefined_method(t, "reports")
        \/ \E http_status \in ConcStatuses : client_get_return(t, http_status)
        \/ caller_resumes(t)

SpecConc == InitConc /\ [][NextConc]_vars

(***************************************************************************)
(* Properties                                                              *)
(***************************************************************************)

\* An optional argument was supplied non-empty.
Supplied(v) == v \notin {None, <<>>}

\* The percent-encoded form of a date of the input domain.
Encoded(d) == IF d = DateTime THEN <<"2", "0", "1", "4", "-", "0", "1", "-", "0", "1", "+", "0", "0", "%", "3", "A", "0", "0">> ELSE d

\* [?start_date=D][&end_date=D]: the keys of the supplied dates, start first.
DateQuery(start_date, end_date) ==
    CASE Supplied(start_date) /\ Supplied(end_date) ->
            <<"?", "s", "t", "a", "r", "t", "_", "d", "a", "t", "e", "=">> \o Encoded(start_date) \o <<"&", "e", "n", "d", "_", "d", "a", "t", "e", "=">> \o Encoded(end_date)
      [] Supplied(start_date) /\ ~Supplied(end_date) ->
            <<"?", "s", "t", "a", "r", "t", "_", "d", "a", "t", "e", "=">> \o Encoded(start_date)
      [] ~Supplied(start_date) /\ Supplied(end_date) ->
            <<"?", "e", "n", "d", "_", "d", "a", "t", "e", "=">> \o Encoded(end_date)
      [] OTHER -> <<>>

\* courses/{course_id}
CoursePrefix == <<"c", "o", "u", "r", "s", "e", "s", "/">> \o course_id

\* The caller's call has reached client.get.
Sent(t) == request[t] # NoRequest

\* The caller's call has run to client.get or to an error of its own.
Settled(t) == pc[t] \in {"in_get", "returned", "raised"}

\* The caller's call matches the signature of the method it names.
WellFormed(t) == call[t].unexpected = "none" /\ call[t].video_id # OMITTED_ARG

\* The activity_type a call of activity or recent_activity runs with.
GivenActivityType(t) ==
    IF call[t].activity_type = OMITTED_ARG THEN AT_ANY ELSE call[t].activity_type

\* C1: enrollment passes to client.get exactly
\* courses/{course_id}/enrollment/[{demographic}/][?start_date=D][&end_date=D]:
\* the demographic segment only when supplied and before the query string, the
\* supplied date keys only, start_date before end_date, and no "?" without dates.
C1_EnrollmentPath ==
    \A t \in Threads :
        (call[t].op = "enrollment" /\ WellFormed(t) /\ pc[t] # "idle") =>
            /\ Sent(t)
            /\ request[t].path =
                 CoursePrefix \o <<"/", "e", "n", "r", "o", "l", "l", "m", "e", "n", "t", "/">>
                   \o (IF Supplied(call[t].demographic)
                       THEN call[t].demographic \o <<"/">> ELSE <<>>)
                   \o DateQuery(call[t].start_date, call[t].end_date)

\* C2: activity passes to client.get
\* courses/{course_id}/activity/?activity_type=T[&start_date=D][&end_date=D],
\* with activity_type first, then start_date, then end_date.
C2_ActivityTypeFirst ==
    \A t \in Threads :
        (call[t].op = "activity" /\ Sent(t)) =>
            request[t].path =
                CoursePrefix \o <<"/", "a", "c", "t", "i", "v", "i", "t", "y", "/">> \o <<"?", "a", "c", "t", "i", "v", "i", "t", "y", "_", "t", "y", "p", "e", "=">> \o GivenActivityType(t)
                  \o (IF Supplied(call[t].start_date)
                      THEN <<"&", "s", "t", "a", "r", "t", "_", "d", "a", "t", "e", "=">> \o Encoded(call[t].start_date) ELSE <<>>)
                  \o (IF Supplied(call[t].end_date)
                      THEN <<"&", "e", "n", "d", "_", "d", "a", "t", "e", "=">> \o Encoded(call[t].end_date) ELSE <<>>)

\* C3: activity with an empty or null activity_type raises InvalidRequestError
\* and client.get is never called, whatever the dates and the data format.
C3_ActivityTypeRequired ==
    \A t \in Threads :
        (call[t].op = "activity" /\ ~Supplied(GivenActivityType(t))) =>
            /\ pc[t] = "raised"
            /\ outcome[t] = [kind |-> "raise", value |-> "InvalidRequestError"]
            /\ gets[t] = 0
            /\ ~Sent(t)

\* activity was called with the empty string, dates and the CSV format.
C3_Witness ==
    \E t \in Threads :
        /\ call[t].op = "activity" /\ call[t].activity_type = <<>>
        /\ Supplied(call[t].start_date) /\ call[t].data_format = DF_CSV
        /\ pc[t] = "raised"

\* The base path of the four date-filtered endpoints.
C4_Base(t) ==
    CASE call[t].op = "videos" -> CoursePrefix \o <<"/", "v", "i", "d", "e", "o", "s", "/">>
      [] call[t].op = "video_summary" ->
            CoursePrefix \o <<"/", "v", "i", "d", "e", "o", "s", "/">> \o call[t].video_id \o <<"/", "s", "u", "m", "m", "a", "r", "y", "/">>
      [] call[t].op = "video_seek_times" ->
            CoursePrefix \o <<"/", "v", "i", "d", "e", "o", "s", "/">> \o call[t].video_id \o <<"/", "s", "e", "e", "k", "_", "t", "i", "m", "e", "s", "/">>
      [] call[t].op = "on_campus_data" -> CoursePrefix \o <<"/", "o", "n", "_", "c", "a", "m", "p", "u", "s", "_", "s", "t", "u", "d", "e", "n", "t", "_", "d", "a", "t", "a", "/">>

\* C4: videos, video_summary, video_seek_times and on_campus_data pass the
\* endpoint's base path, bare when no date is supplied, else followed by the
\* supplied dates with start_date first; videos('2014-01-01', '2014-01-01') on
\* edX/DemoX/Demo_Course gives
\* courses/edX/DemoX/Demo_Course/videos/?start_date=2014-01-01&end_date=2014-01-01.
C4_DateFilteredPaths ==
    \A t \in Threads :
        /\ (call[t].op \in {"videos", "video_summary", "video_seek_times", "on_campus_data"}
              /\ WellFormed(t) /\ pc[t] # "idle") =>
                /\ Sent(t)
                /\ request[t].path =
                     C4_Base(t) \o DateQuery(call[t].start_date, call[t].end_date)
        /\ (call[t].op = "videos" /\ pc[t] # "idle" /\ course_id = TestCourseId
              /\ call[t].start_date = Date /\ call[t].end_date = Date) =>
                request[t].path = <<"c", "o", "u", "r", "s", "e", "s", "/", "e", "d", "X", "/", "D", "e", "m", "o", "X", "/", "D", "e", "m", "o", "_", "C", "o", "u", "r", "s", "e", "/", "v", "i", "d", "e", "o", "s", "/", "?", "s", "t", "a", "r", "t", "_", "d", "a", "t", "e", "=", "2", "0", "1", "4", "-", "0", "1", "-", "0", "1", "&", "e", "n", "d", "_", "d", "a", "t", "e", "=", "2", "0", "1", "4", "-", "0", "1", "-", "0", "1">>

\* C5: client.get receives the data_format the caller gave (JSON when none was
\* given) and the caller receives exactly what client.get produced: its value,
\* or its error (NotFoundError for a 404, InvalidRequestError for a 400).
C5_Transparent ==
    \A t \in Threads :
        /\ Sent(t) =>
             request[t].data_format =
                 (IF call[t].data_format = OMITTED_ARG THEN DF_JSON ELSE call[t].data_format)
        /\ (Sent(t) /\ pc[t] \in {"returned", "raised"}) =>
             /\ produced[t] # NoResult
             /\ outcome[t] = produced[t]
             /\ (pc[t] = "raised") = (produced[t].kind = "raise")
             /\ status[t] = 200 => outcome[t].kind = "return"
             /\ status[t] = 404 => outcome[t] = [kind |-> "raise", value |-> "NotFoundError"]
             /\ status[t] = 400 => outcome[t] = [kind |-> "raise", value |-> "InvalidRequestError"]

\* A CSV enrollment call was answered with a 404.
C5_Witness ==
    \E t \in Threads :
        /\ call[t].op = "enrollment" /\ call[t].data_format = DF_CSV
        /\ status[t] = 404 /\ pc[t] = "raised"

\* C6: every call of a method of Course calls client.get exactly once, also
\* when that call fails, except activity with an empty activity_type, which
\* calls it zero times; no other method fails before it reaches client.get.
C6_ExactlyOneGet ==
    \A t \in Threads :
        (call[t].op \in CourseMethods /\ WellFormed(t) /\ Settled(t)) =>
            IF call[t].op = "activity" /\ ~Supplied(GivenActivityType(t))
            THEN gets[t] = 0
            ELSE /\ gets[t] = 1
                 /\ pc[t] = "raised" => status[t] \notin {0, 200}

\* C7: recent_activity warns that it is deprecated in favour of activity and
\* passes courses/{course_id}/recent_activity/?activity_type=T, the only
\* parameter and always present; the result is returned as for any endpoint.
C7_RecentActivity ==
    \A t \in Threads :
        (call[t].op = "recent_activity" /\ WellFormed(t) /\ Settled(t)) =>
            /\ Sent(t)
            /\ request[t].path =
                 CoursePrefix \o <<"/", "r", "e", "c", "e", "n", "t", "_", "a", "c", "t", "i", "v", "i", "t", "y", "/", "?", "a", "c", "t", "i", "v", "i", "t", "y", "_", "t", "y", "p", "e", "=">>
                   \o (IF GivenActivityType(t) = None THEN <<"N", "o", "n", "e">>
                       ELSE GivenActivityType(t))
            /\ Len(warnings[t]) = 1
            /\ warnings[t][1].category = "DeprecationWarning"
            /\ warnings[t][1].message =
                 "recent_activity has been deprecated! Use activity instead."
            /\ pc[t] \in {"returned", "raised"} => outcome[t] = produced[t]

\* The characters that need no encoding in a path.
PathSafe == always_safe \cup {"/"}

\* C8 (as stated): in every path course_id is not empty and is URL-encoded
\* where it contains reserved characters.
C8_CourseIdEncoded ==
    \A t \in Threads :
        Sent(t) =>
            /\ course_id # <<>>
            /\ SubSeq(request[t].path, 1, 9 + Len(quote(course_id, {"/"}))) =
                 <<"c", "o", "u", "r", "s", "e", "s", "/">> \o quote(course_id, {"/"}) \o <<"/">>

\* C8 (amended): course_id is the text given to the constructor, empty or
\* not, and every path embeds it verbatim, unencoded, right after "courses/".
C8_CourseIdVerbatim ==
    \A t \in Threads :
        Sent(t) =>
            SubSeq(request[t].path, 1, 9 + Len(course_id)) = CoursePrefix \o <<"/">>

\* A request is out for a course id with a character that is not path-safe.
C8_Witness ==
    \E t \in Threads :
        /\ Sent(t)
        /\ Chars(course_id) \ PathSafe # {}

\* C9: problems_and_tags() issues one GET on courses/{course_id}/problems_and_tags/
\* and reports(name) one GET on courses/{course_id}/reports/{name}/, as
\* problems() does on courses/{course_id}/problems/.
C9_ProblemsAndTagsAndReports ==
    \A t \in Threads :
        /\ (call[t].op = "problems_and_tags" /\ pc[t] # "idle") =>
              /\ gets[t] = 1
              /\ request[t].path = CoursePrefix \o <<"/", "p", "r", "o", "b", "l", "e", "m", "s", "_", "a", "n", "d", "_", "t", "a", "g", "s", "/">>
        /\ (call[t].op = "reports" /\ pc[t] # "idle") =>
              /\ gets[t] = 1
              /\ request[t].path = CoursePrefix \o <<"/", "r", "e", "p", "o", "r", "t", "s", "/", "p", "r", "o", "b", "l", "e", "m", "_", "r", "e", "s", "p", "o", "n", "s", "e", "/">>

\* Two calls of the same method with the same arguments, made under the same
\* action of the warnings filter, were handed to client.get alike: both with
\* the same path and data format, or neither.
SameRequest ==
    \A t1, t2 \in Threads :
        (Settled(t1) /\ Settled(t2) /\ call[t1] = call[t2]
           /\ warnings[t1] = warnings[t2]) => request[t1] = request[t2]

\* C10: no step of any call, in any interleaving, changes course_id or the
\* client reference, and what a call passes to client.get depends on its own
\* arguments and course_id only, never on the calls made before it or in
\* progress beside it.
C10_Stateless ==
    [][course_id' = course_id /\ client' = client /\ SameRequest']_vars

====
